---- MODULE Spec2Model ----
(***************************************************************************)
(* Urban Heat Island Analyzer: the report store (session state), the       *)
(* hotspot detector identify_hotspots and its callers.                     *)
(*                                                                         *)
(* Units.  Latitude and longitude are integers in millidegrees (0.001      *)
(* degree), eps is in millidegrees as well, and temperatures and           *)
(* temp_threshold are integers in tenths of a degree Celsius.  Means are   *)
(* exact rationals, kept as reduced fractions [num, den]; the code's       *)
(* float64 rounding noise is not represented.  The coordinate generator    *)
(* works in units of 0.0001 degree, the precision of its city table.       *)
(***************************************************************************)
EXTENDS Integers, Sequences, FiniteSets, TLC

VARIABLES
    community_reports,   \* st.session_state.community_reports (rows in insertion order)
    args,                \* parameters of the detection call of the current script run
    high_temp_reports,   \* identify_hotspots' local frame after line 37 (with 'cluster')
    hotspots,            \* value returned by identify_hotspots in the current script run
    coordinates,         \* generate_coordinates_around_city's list under construction
    generator,           \* that call's arguments, resolved centre, draws and position
    form,                \* widget values of the Community Input page
    clock,               \* the wall clock datetime.now() reads, in ticks
    session_state,       \* the other keys of st.session_state (absent until set)
    page,                \* the page whose script ran last
    success,             \* value add_community_report returned last (FALSE before any)
    rendered,            \* what the last script run of a page put on the screen
    detection            \* a detector call in progress beside the writer: its bound
                         \* argument, position and return value

generatorVars == <<coordinates, generator>>
pageVars == <<form, clock, success>>
sessionVars == <<session_state, page, rendered>>

vars == <<community_reports, args, high_temp_reports, hotspots,
          coordinates, generator, form, clock, session_state, page,
          success, rendered, detection>>

----------------------------------------------------------------------------
(* Bounds of the model *)

MaxReports == 4          \* longest report store explored
MaxPoints == 3           \* largest num_points asked of the coordinate generator
MaxClock == 3            \* last tick of the wall clock
TicksPerSecond == 2      \* resolution of the wall clock below strftime's second
MaxSubmitted == 3        \* reports the Community Input page is used for
MaxHeatmapReports == 11  \* longest store a heat map is created from

(* Program constants: the defaults of identify_hotspots and the severity cut-offs *)
DefaultEps == 10              \* eps=0.01 degree
DefaultMinSamples == 3        \* min_samples=3
DefaultTempThreshold == 300   \* temp_threshold=30
ExtremeCut == 350             \* temp >= 35
HighCut == 320                \* temp >= 32
NoiseLabel == -1              \* DBSCAN's label of a noise sample
DefaultRadius == 500          \* radius=0.05 degree, in 0.0001 degree
DefaultReporter == "Anonymous"   \* reporter="Anonymous"
MinReportsForClustering == 3  \* len(st.session_state.community_reports) >= 3
HeatmapMinPoints == 10        \* len(heat_data) < 10
SimulatedPoints == 20         \* num_points=20

----------------------------------------------------------------------------
(* Inputs *)

\* (latitude, longitude, temperature) of the reports a user may submit.  The first
\* four are the reports of the end-to-end example; the others add a co-located
\* 34.9-degree report and a 35-degree report far away from the first three.
Submissions ==
    { <<40700, -74000, 360>>, <<40701, -74001, 340>>, <<40702, -74002, 350>>,
      <<34050, -118240, 220>>, <<40701, -74001, 349>>, <<34050, -118240, 350>> }

Descriptions == {""}
Reporters == {"Anonymous"}
Timestamps == {"2025-04-16 18:23:08"}

\* Parameters of a detector call: those scikit-learn accepts (eps > 0,
\* min_samples >= 1).  With eps = 2 adjacent example points (1.41 apart) are
\* neighbours and the outer two (2.83 apart) are not.
EpsValues == {2, DefaultEps}
MinSamplesValues == 1..DefaultMinSamples
TempThresholds == {220, DefaultTempThreshold}

----------------------------------------------------------------------------
(* Exact arithmetic *)

Abs(x) == IF x < 0 THEN -x ELSE x

RECURSIVE GCD(_, _)
GCD(a, b) == IF b = 0 THEN a ELSE GCD(b, a % b)

\* The rational n/d (d > 0) in lowest terms.
Frac(n, d) ==
    LET g == GCD(Abs(n), d)
    IN  [num |-> n \div g, den |-> d \div g]

RECURSIVE SumSeq(_)
SumSeq(s) == IF s = <<>> THEN 0 ELSE Head(s) + SumSeq(Tail(s))

\* The values of column col of a frame (a sequence of rows), in row order.
Column(rows, col) == [i \in 1..Len(rows) |-> rows[i][col]]

\* pandas' 'mean' aggregation of one column over the rows of a group.
MeanOf(rows, col) == Frac(SumSeq(Column(rows, col)), Len(rows))

\* (mutant) the mean is truncated to one decimal place.
Round1Truncating(q) == q.num \div q.den

\* Series.round(1) on a value given in tenths: the nearest tenth, a tie going to
\* the even one (numpy's rint), as an integer number of tenths.
Round1(q) ==
    LET up == (2 * q.num + q.den) \div (2 * q.den)
        tie == (2 * q.num + q.den) % (2 * q.den) = 0
    IN  IF tie /\ up % 2 = 1 THEN up - 1 ELSE up

----------------------------------------------------------------------------
(* identify_hotspots *)

\* A frame is a sequence of rows; a row of the report store carries its index
\* label (its position, counted from 0: the store is built with ignore_index=True).
StoreRows(df) ==
    [i \in 1..Len(df) |->
        [index |-> i - 1,
         latitude |-> df[i].latitude,
         longitude |-> df[i].longitude,
         temperature |-> df[i].temperature,
         timestamp |-> df[i].timestamp,
         description |-> df[i].description,
         reporter |-> df[i].reporter]]

\* (mutant) the temperature filter is left out: every report is clustered.
HighTempReportsUnfiltered(df, temp_threshold) == StoreRows(df)

\* (mutant) the filter keeps only the reports strictly above the threshold.
HighTempReportsStrict(df, temp_threshold) ==
    SelectSeq(StoreRows(df), LAMBDA r : r.temperature > temp_threshold)

\* community_reports_df[community_reports_df['temperature'] >= temp_threshold]
HighTempReports(df, temp_threshold) ==
    SelectSeq(StoreRows(df), LAMBDA r : r.temperature >= temp_threshold)

\* (mutant) the longitude column is left out of the clustered coordinates.
CoordsLatitudeOnly(rows) == [i \in 1..Len(rows) |-> <<rows[i].latitude, 0>>]

\* high_temp_reports[['latitude', 'longitude']].values
Coords(rows) == [i \in 1..Len(rows) |-> <<rows[i].latitude, rows[i].longitude>>]

\* (mutant) a sample at distance eps exactly is no neighbour.
WithinEpsExclusive(p, q, eps) ==
    LET dlat == Abs(p[1] - q[1])
        dlon == Abs(p[2] - q[2])
    IN  dlat * dlat + dlon * dlon < eps * eps

\* Euclidean distance of two coordinate pairs at most eps (planar, in raw degrees).
WithinEps(p, q, eps) ==
    LET dlat == Abs(p[1] - q[1])
        dlon == Abs(p[2] - q[2])
    IN  /\ dlat <= eps
        /\ dlon <= eps
        /\ dlat * dlat + dlon * dlon <= eps * eps

\* DBSCAN.fit: the eps-neighbourhood of every sample (the sample itself included).
Neighborhoods(coords, eps) ==
    [i \in 1..Len(coords) |-> {j \in 1..Len(coords) : WithinEps(coords[i], coords[j], eps)}]

\* (mutant) a sample is core with one neighbour fewer.
CoreSamplesOneFewer(coords, eps, min_samples) ==
    LET nb == Neighborhoods(coords, eps)
    IN  {i \in 1..Len(coords) : Cardinality(nb[i]) >= min_samples - 1}

\* DBSCAN.fit: the samples whose neighbourhood holds at least min_samples samples.
CoreSamples(coords, eps, min_samples) ==
    LET nb == Neighborhoods(coords, eps)
    IN  {i \in 1..Len(coords) : Cardinality(nb[i]) >= min_samples}

\* dbscan_inner's depth-first expansion from one unlabelled core sample: every
\* unlabelled sample reached through neighbourhoods of core samples.
RECURSIVE ExpandCluster(_, _, _, _)
ExpandCluster(nb, core, labels, members) ==
    LET more == {j \in DOMAIN labels :
                    /\ labels[j] = NoiseLabel
                    /\ j \notin members
                    /\ \E i \in members : i \in core /\ j \in nb[i]}
    IN  IF more = {} THEN members
        ELSE ExpandCluster(nb, core, labels, members \cup more)

\* dbscan_inner's outer loop over the samples in row order.
RECURSIVE LabelFrom(_, _, _, _, _)
LabelFrom(nb, core, i, labels, label_num) ==
    IF i > Len(labels) THEN labels
    ELSE IF labels[i] # NoiseLabel \/ i \notin core
         THEN LabelFrom(nb, core, i + 1, labels, label_num)
         ELSE LET members == ExpandCluster(nb, core, labels, {i})
                  labelled == [j \in DOMAIN labels |->
                                  IF j \in members THEN label_num ELSE labels[j]]
              IN  LabelFrom(nb, core, i + 1, labelled, label_num + 1)

\* DBSCAN(eps=eps, min_samples=min_samples).fit(coords).labels_
DBSCANLabels(coords, eps, min_samples) ==
    LabelFrom(Neighborhoods(coords, eps), CoreSamples(coords, eps, min_samples),
              1, [j \in 1..Len(coords) |-> NoiseLabel], 0)

\* high_temp_reports after the 'cluster' column is added to its copy.
WithCluster(rows, labels) ==
    [i \in 1..Len(rows) |->
        [index |-> rows[i].index,
         latitude |-> rows[i].latitude,
         longitude |-> rows[i].longitude,
         temperature |-> rows[i].temperature,
         timestamp |-> rows[i].timestamp,
         description |-> rows[i].description,
         reporter |-> rows[i].reporter,
         cluster |-> labels[i]]]

\* (mutant) with two clusters, the rows of each are counted in the other as well.
ClusteredReportsShared(labelled) ==
    LET clustered == SelectSeq(labelled, LAMBDA r : r.cluster # NoiseLabel)
        keys == {clustered[i].cluster : i \in 1..Len(clustered)}
        Relabelled(c) == [i \in 1..Len(clustered) |->
                             [clustered[i] EXCEPT !.cluster = c]]
    IN  IF Cardinality(keys) = 2
        THEN Relabelled(0) \o Relabelled(1)
        ELSE clustered

\* (mutant) the noise rows are not filtered out.
ClusteredReportsKeepNoise(labelled) == labelled

\* high_temp_reports[high_temp_reports['cluster'] != -1]
ClusteredReports(labelled) ==
    SelectSeq(labelled, LAMBDA r : r.cluster # NoiseLabel)

\* The group keys of groupby('cluster'), in ascending order.
RECURSIVE SortedKeys(_)
SortedKeys(keys) ==
    IF keys = {} THEN <<>>
    ELSE LET least == CHOOSE k \in keys : \A other \in keys : k <= other
         IN  <<least>> \o SortedKeys(keys \ {least})

\* (mutant) the Extreme cut-off is exclusive.
calculate_severity_exclusive(temp) ==
    IF temp.num > ExtremeCut * temp.den THEN "Extreme"
    ELSE IF temp.num >= HighCut * temp.den THEN "High"
    ELSE "Moderate"

\* calculate_severity, on a mean temperature given in tenths of a degree.
calculate_severity(temp) ==
    IF temp.num >= ExtremeCut * temp.den THEN "Extreme"
    ELSE IF temp.num >= HighCut * temp.den THEN "High"
    ELSE "Moderate"

\* (mutant) the centroid is taken from the first report of the group ('first'
\* in place of 'mean').
AggregateFirst(clustered) ==
    LET keys == SortedKeys({clustered[i].cluster : i \in 1..Len(clustered)})
        group(k) == SelectSeq(clustered, LAMBDA r : r.cluster = keys[k])
    IN  [k \in 1..Len(keys) |->
            [latitude |-> Frac(group(k)[1].latitude, 1),
             longitude |-> Frac(group(k)[1].longitude, 1),
             temperature |-> Round1(MeanOf(group(k), "temperature")),
             severity |-> calculate_severity(MeanOf(group(k), "temperature"))]]

\* (mutant) the temperature is rounded before the severity is taken from it.
AggregateRoundFirst(clustered) ==
    LET keys == SortedKeys({clustered[i].cluster : i \in 1..Len(clustered)})
        group(k) == SelectSeq(clustered, LAMBDA r : r.cluster = keys[k])
    IN  [k \in 1..Len(keys) |->
            [latitude |-> MeanOf(group(k), "latitude"),
             longitude |-> MeanOf(group(k), "longitude"),
             temperature |-> Round1(MeanOf(group(k), "temperature")),
             severity |->
                 calculate_severity(Frac(Round1(MeanOf(group(k), "temperature")), 1))]]

\* groupby('cluster').agg(mean of latitude, longitude, temperature).reset_index(),
\* then the severity column from the unrounded mean, then temperature.round(1),
\* then the four output columns.
Aggregate(clustered) ==
    LET keys == SortedKeys({clustered[i].cluster : i \in 1..Len(clustered)})
        group(k) == SelectSeq(clustered, LAMBDA r : r.cluster = keys[k])
    IN  [k \in 1..Len(keys) |->
            [latitude |-> MeanOf(group(k), "latitude"),
             longitude |-> MeanOf(group(k), "longitude"),
             temperature |-> Round1(MeanOf(group(k), "temperature")),
             severity |-> calculate_severity(MeanOf(group(k), "temperature"))]]

\* What a script run holds before it has called the detector, what the detector
\* returns at line 21, and a returned frame.
NotCalled == [kind |-> "NotCalled", rows |-> <<>>]
None == [kind |-> "None", rows |-> <<>>]
DataFrame(rows) == [kind |-> "DataFrame", rows |-> rows]

\* identify_hotspots: the value it returns, with its local high_temp_reports as
\* it is once the 'cluster' column is added (empty when the call returns before).
identify_hotspots(df, eps, min_samples, temp_threshold) ==
    IF df = <<>> THEN [high_temp_reports |-> <<>>, returns |-> None]
    ELSE LET high == HighTempReports(df, temp_threshold)
         IN  IF Len(high) < min_samples
             THEN [high_temp_reports |-> <<>>, returns |-> DataFrame(<<>>)]
             ELSE LET labelled ==
                          WithCluster(high, DBSCANLabels(Coords(high), eps, min_samples))
                      clustered_reports == ClusteredReports(labelled)
                  IN  [high_temp_reports |-> labelled,
                       returns |-> IF clustered_reports = <<>>
                                   THEN DataFrame(<<>>)
                                   ELSE DataFrame(Aggregate(clustered_reports))]

----------------------------------------------------------------------------
(* generate_coordinates_around_city: data.  Coordinates and radius are integers
   in units of 0.0001 degree.  A draw U1 of random.random() is a number of
   sixteenths that is a perfect square, so that its square root is exact (in
   quarters); a draw U2 is given by the cosine and sine of the angle 2*pi*U2, in
   fifths, for angles where both are rational.  Every draw lies in [0, 1). *)

city_centers ==
    ("New York" :> <<407128, -740060>>) @@ ("Los Angeles" :> <<340522, -1182437>>) @@
    ("Chicago" :> <<418781, -876298>>) @@ ("Houston" :> <<297604, -953698>>) @@
    ("Phoenix" :> <<334484, -1120740>>) @@ ("Philadelphia" :> <<399526, -751652>>) @@
    ("San Antonio" :> <<294241, -984936>>) @@ ("San Diego" :> <<327157, -1171611>>) @@
    ("Dallas" :> <<327767, -967970>>) @@ ("San Jose" :> <<373382, -1218863>>) @@
    ("Mumbai" :> <<190760, 728777>>) @@ ("Delhi" :> <<286139, 772090>>) @@
    ("Bangalore" :> <<129716, 775946>>) @@ ("Hyderabad" :> <<173850, 784867>>) @@
    ("Chennai" :> <<130827, 802707>>) @@ ("Kolkata" :> <<225726, 883639>>) @@
    ("Pune" :> <<185204, 738567>>) @@ ("Ahmedabad" :> <<230225, 725714>>) @@
    ("Jaipur" :> <<269124, 757873>>) @@ ("Lucknow" :> <<268467, 809462>>)

\* Arguments of a generator call: two names of the table and a name spelt as the
\* weather service spells it, which the table lacks; the default radius and twice it.
CityNames == {"New York", "Mumbai", "Bengaluru"}
NumPointsValues == 0..MaxPoints
RadiusValues == {DefaultRadius, 2 * DefaultRadius}

\* Draws of random.random(): U1 in sixteenths, and U2 as <<cos, sin>> of 2*pi*U2
\* in fifths (U2 = 0, 1/4, the angle of the 3-4-5 triangle, and its opposite
\* turned by a quarter turn).
U1Values == {0, 9}
U2Values == {<<5, 0>>, <<0, 5>>, <<3, 4>>, <<-4, -3>>}

\* np.sqrt of a draw in sixteenths, in quarters
Sqrt(u1) == CHOOSE r \in 0..4 : r * r = u1

\* np.cos and np.sin of random_angle = 2 * np.pi * U2, in fifths
Cos(u2) == u2[1]
Sin(u2) == u2[2]

\* (mutant) the name is looked up as given.
ResolveAsGiven(city_name) == city_name

\* if city_name not in city_centers: city_name = "New York"
ResolveCityName(city_name) ==
    IF city_name \notin DOMAIN city_centers THEN "New York" ELSE city_name

\* (mutant) the sine goes to the longitude and the cosine to the latitude.
PointSwapped(city_center, radius, u1, u2) ==
    LET random_distance == radius * Sqrt(u1)
    IN  << city_center[1] + (random_distance * Cos(u2)) \div 20,
           city_center[2] + (random_distance * Sin(u2)) \div 20 >>

\* One iteration's [lat, lon]: random_distance is in quarters of a unit and the
\* offsets in twentieths, which the radii make whole numbers of units.
Point(city_center, radius, u1, u2) ==
    LET random_distance == radius * Sqrt(u1)
        x_offset == random_distance * Cos(u2)
        y_offset == random_distance * Sin(u2)
    IN  << city_center[1] + y_offset \div 20, city_center[2] + x_offset \div 20 >>

IdleGenerator ==
    [pc |-> "idle", asked |-> "", city_name |-> "", num_points |-> 0, radius |-> 0,
     city_center |-> <<0, 0>>, draws |-> <<>>]

----------------------------------------------------------------------------
(* The Community Input page: data *)

\* strftime("%Y-%m-%d %H:%M:%S") of a clock reading: the whole seconds of it
Strftime(t) == t \div TicksPerSecond

\* The widgets' values before the user touches them (coordinates to the nearest
\* millidegree).
InitialForm ==
    [latitude |-> 40713, longitude |-> -74006, temperature |-> 250,
     time_choice |-> "Now", report_datetime |-> 0,
     description |-> "", reporter |-> DefaultReporter]

\* What the user may make of the form: leave it as it is, or enter another place
\* and temperature, a description, a name, and a Custom date and time (in seconds:
\* an hour before the session began, or the very second it began).
FormFillings ==
    { InitialForm,
      [latitude |-> 40700, longitude |-> -74000, temperature |-> 360,
       time_choice |-> "Now", report_datetime |-> 0,
       description |-> "Concrete parking lot", reporter |-> "Asha"],
      [latitude |-> 40700, longitude |-> -74000, temperature |-> 360,
       time_choice |-> "Custom", report_datetime |-> -3600,
       description |-> "", reporter |-> DefaultReporter],
      [latitude |-> 40713, longitude |-> -74006, temperature |-> 250,
       time_choice |-> "Custom", report_datetime |-> 0,
       description |-> "Downtown park", reporter |-> "Asha"] }

----------------------------------------------------------------------------
(* st.session_state: data.  The report frame itself is the variable
   community_reports; the key "community_reports" of session_state tells that the
   frame has been created. *)

\* st.session_state before the first script run of the session: no key at all
EmptySession == [k \in {} |-> FALSE]

\* st.session_state.<key> = value
Set(ss, key, value) ==
    [k \in DOMAIN ss \cup {key} |-> IF k = key THEN value ELSE ss[k]]

\* if '<key>' not in st.session_state: st.session_state.<key> = value
SetDefault(ss, key, value) ==
    IF key \in DOMAIN ss THEN ss ELSE Set(ss, key, value)

\* Cities the user selects in the sidebar, and whether a request to the weather
\* service succeeds.
SessionCities == {"New York", "Mumbai"}
Outcomes == {TRUE, FALSE}

\* get_weather_data and get_forecast_data: the service's answer for the city, or
\* None (a status other than 200, or an exception).
get_weather_data(city_name, ok) ==
    IF ok THEN [kind |-> "weather", name |-> city_name] ELSE None
get_forecast_data(city_name, ok) ==
    IF ok THEN [kind |-> "forecast", name |-> city_name] ELSE None

\* (mutant) ten reports still count as few.
create_heatmap_inclusive(weather_data, reports) ==
    LET heat_data == [i \in 1..Len(reports) |->
                         <<reports[i].latitude, reports[i].longitude,
                           reports[i].temperature>>]
        few == Len(heat_data) <= HeatmapMinPoints
    IN  [kind |-> "Map",
         name |-> IF weather_data = None THEN "New York" ELSE weather_data.name,
         reports |-> Len(reports),
         heat_data |-> heat_data,
         generator_called |-> few,
         simulated |-> IF few THEN SimulatedPoints ELSE 0]

\* create_heatmap: the map's centre city and its heat data, the reports' points
\* (lines 35-38) and, below ten of them, the points of one call of
\* generate_coordinates_around_city(city_name, num_points=20) (lines 41-52),
\* kept as their number.
create_heatmap(weather_data, reports) ==
    LET heat_data == [i \in 1..Len(reports) |->
                         <<reports[i].latitude, reports[i].longitude,
                           reports[i].temperature>>]
        few == Len(heat_data) < HeatmapMinPoints
    IN  [kind |-> "Map",
         name |-> IF weather_data = None THEN "New York" ELSE weather_data.name,
         reports |-> Len(reports),
         heat_data |-> heat_data,
         generator_called |-> few,
         simulated |-> IF few THEN SimulatedPoints ELSE 0]

\* (mutant) the page creates the report frame on every run.
InitStoreAlways(ss, reports) == <<>>

\* if 'community_reports' not in st.session_state: an empty frame is created
InitStore(ss, reports) ==
    IF "community_reports" \in DOMAIN ss THEN reports ELSE <<>>

\* app.py lines 60-73
InitHomeKeys(ss) ==
    SetDefault(SetDefault(SetDefault(SetDefault(SetDefault(SetDefault(ss,
        "weather_data", None),
        "community_reports", TRUE),
        "selected_city", "New York"),
        "data_stale", FALSE),
        "satellite_loaded", FALSE),
        "reports_loaded", FALSE)

\* analysis.py lines 19-26
InitAnalysisKeys(ss) ==
    SetDefault(SetDefault(SetDefault(ss,
        "community_reports", TRUE),
        "selected_city", "New York"),
        "forecast_data", None)

\* community_input.py lines 17-24
InitCommunityInputKeys(ss) ==
    SetDefault(SetDefault(ss, "community_reports", TRUE), "selected_location", None)

\* app.py change_city
change_city(ss, selected_city) ==
    IF selected_city # ss["selected_city"]
    THEN Set(Set(Set(Set(ss, "selected_city", selected_city),
                     "data_stale", TRUE),
                 "satellite_loaded", FALSE),
             "reports_loaded", FALSE)
    ELSE ss

\* (mutant) a failed fetch drops the weather data held.
fetch_weather_data_clearing(ss, ok) ==
    LET weather_data == get_weather_data(ss["selected_city"], ok)
    IN  IF weather_data # None
        THEN Set(Set(Set(ss, "weather_data", weather_data),
                     "data_stale", FALSE),
                 "refresh_needed", TRUE)
        ELSE Set(ss, "weather_data", None)

\* app.py fetch_weather_data
fetch_weather_data(ss, ok) ==
    LET weather_data == get_weather_data(ss["selected_city"], ok)
    IN  IF weather_data # None
        THEN Set(Set(Set(ss, "weather_data", weather_data),
                     "data_stale", FALSE),
                 "refresh_needed", TRUE)
        ELSE ss

\* app.py lines 132-144: the Temperature Map tab creates the heat map
TemperatureMapTab(ss, reports) ==
    IF ss["weather_data"] # None /\ ~ss["data_stale"]
    THEN IF \/ "heatmap" \notin DOMAIN ss
            \/ (IF "refresh_needed" \in DOMAIN ss THEN ss["refresh_needed"] ELSE TRUE)
         THEN Set(Set(ss, "heatmap", create_heatmap(ss["weather_data"], reports)),
                  "refresh_needed", FALSE)
         ELSE ss
    ELSE ss

\* analysis.py lines 54-56: the sidebar's city selection
analysis_change_city(ss, selected_city) ==
    IF selected_city # ss["selected_city"]
    THEN Set(Set(ss, "selected_city", selected_city), "forecast_data", None)
    ELSE ss

\* analysis.py lines 226-229: the forecast tab fetches when there is no forecast
ForecastTab(ss, ok) ==
    IF ss["forecast_data"] = None
    THEN Set(ss, "forecast_data", get_forecast_data(ss["selected_city"], ok))
    ELSE ss

----------------------------------------------------------------------------
(* State machine *)

NoArgs == [called |-> FALSE, eps |-> 0, min_samples |-> 0, temp_threshold |-> 0]

\* No detector call is in progress beside the writer.
NoDetection == [pc |-> "idle", df |-> <<>>, returns |-> NotCalled]

Init ==
    /\ community_reports = <<>>
    /\ args = NoArgs
    /\ high_temp_reports = <<>>
    /\ hotspots = NotCalled
    /\ coordinates = <<>>
    /\ generator = IdleGenerator
    /\ form = InitialForm
    /\ clock = 0
    /\ session_state = EmptySession
    /\ page = "none"
    /\ success = FALSE
    /\ rendered = {}
    /\ detection = NoDetection

\* (mutant) the new row is put before the stored ones.
add_community_report_first(lat, lon, temperature, description, reporter, now, raised) ==
    /\ Len(community_reports) < MaxReports
    /\ community_reports' =
          IF raised THEN community_reports
          ELSE <<[latitude |-> lat, longitude |-> lon, temperature |-> temperature,
                  timestamp |-> now, description |-> description,
                  reporter |-> reporter]>> \o community_reports
    /\ success' = ~raised
    /\ args' = NoArgs
    /\ high_temp_reports' = <<>>
    /\ hotspots' = NotCalled
    /\ UNCHANGED <<generatorVars, form, clock, sessionVars, detection>>

\* (mutant) the store is assigned before the statement that raises.
add_community_report_partial(lat, lon, temperature, description, reporter, now, raised) ==
    /\ Len(community_reports) < MaxReports
    /\ community_reports' = Append(community_reports,
            [latitude |-> lat, longitude |-> lon, temperature |-> temperature,
             timestamp |-> now, description |-> description, reporter |-> reporter])
    /\ success' = ~raised
    /\ args' = NoArgs
    /\ high_temp_reports' = <<>>
    /\ hotspots' = NotCalled
    /\ UNCHANGED <<generatorVars, form, clock, sessionVars, detection>>

\* add_community_report, called by the Community Input page's submit handler.  The
\* submission starts a new script run of that page, in which the detector's
\* return value of an earlier run of another page no longer exists.  raised tells
\* whether a statement of the try block (lines 117-129) raises: the store is
\* assigned by the block's last statement, so it is then as it was, and the
\* function returns False (lines 132-134).
add_community_report(lat, lon, temperature, description, reporter, now, raised) ==
    /\ Len(community_reports) < MaxReports
    /\ community_reports' =
          IF raised THEN community_reports
          ELSE Append(community_reports,
                   [latitude |-> lat, longitude |-> lon, temperature |-> temperature,
                    timestamp |-> now, description |-> description,
                    reporter |-> reporter])
    /\ success' = ~raised
    /\ args' = NoArgs
    /\ high_temp_reports' = <<>>
    /\ hotspots' = NotCalled
    /\ UNCHANGED <<generatorVars, form, clock, sessionVars, detection>>

\* (mutant) the 'cluster' column is added to the caller's frame, not to a copy of
\* the filtered rows.
CallInPlace(eps, min_samples, temp_threshold) ==
    /\ args' = [called |-> TRUE, eps |-> eps, min_samples |-> min_samples,
                temp_threshold |-> temp_threshold]
    /\ \E run \in {identify_hotspots(community_reports, eps, min_samples, temp_threshold)} :
           /\ high_temp_reports' = run.high_temp_reports
           /\ hotspots' = run.returns
           /\ community_reports' =
                 IF run.high_temp_reports = <<>> THEN community_reports
                 ELSE [i \in 1..Len(community_reports) |->
                          [latitude |-> community_reports[i].latitude,
                           longitude |-> community_reports[i].longitude,
                           temperature |-> community_reports[i].temperature,
                           timestamp |-> community_reports[i].timestamp,
                           description |-> community_reports[i].description,
                           reporter |-> community_reports[i].reporter,
                           cluster |-> NoiseLabel]]

\* The detector call of a script run, hotspots = identify_hotspots(
\* community_reports, eps, min_samples, temp_threshold): its return value and the
\* local frame it built on the way.
Call(eps, min_samples, temp_threshold) ==
    /\ args' = [called |-> TRUE, eps |-> eps, min_samples |-> min_samples,
                temp_threshold |-> temp_threshold]
    /\ \E run \in {identify_hotspots(community_reports, eps, min_samples, temp_threshold)} :
           /\ high_temp_reports' = run.high_temp_reports
           /\ hotspots' = run.returns
    /\ UNCHANGED community_reports

\* The first detector call after the store changed (or of the session).
Detect(eps, min_samples, temp_threshold) ==
    /\ ~args.called
    /\ Call(eps, min_samples, temp_threshold)
    /\ UNCHANGED <<generatorVars, pageVars, sessionVars, detection>>

\* (mutant) the detector keeps the rows of its earlier calls (a list kept between
\* calls, such as a mutable default argument) and returns them with the new ones.
RerunAccumulating ==
    /\ args.called
    /\ args' = args
    /\ high_temp_reports' = high_temp_reports
    /\ LET again == identify_hotspots(community_reports, args.eps, args.min_samples,
                                      args.temp_threshold).returns
       IN  hotspots' = [kind |-> again.kind, rows |-> hotspots.rows \o again.rows]
    /\ UNCHANGED community_reports
    /\ UNCHANGED <<generatorVars, pageVars, sessionVars, detection>>

\* The page's script runs again on the unchanged store and calls the detector
\* again with the same parameters.
Rerun ==
    /\ args.called
    /\ Call(args.eps, args.min_samples, args.temp_threshold)
    /\ UNCHANGED <<generatorVars, pageVars, sessionVars, detection>>

Next ==
    \/ \E s \in Submissions, d \in Descriptions, who \in Reporters, now \in Timestamps :
          add_community_report(s[1], s[2], s[3], d, who, now, FALSE)
    \/ \E eps \in EpsValues, ms \in MinSamplesValues, thr \in TempThresholds :
          Detect(eps, ms, thr)
    \/ Rerun

Spec == Init /\ [][Next]_vars

----------------------------------------------------------------------------
(* generate_coordinates_around_city: the call, one action per step *)

detectorVars == <<community_reports, args, high_temp_reports, hotspots>>

\* Lines 79-108: the name is resolved, the centre looked up (a KeyError if the
\* table has no such name) and the list created.
generate_coordinates_around_city(city_name, num_points, radius) ==
    /\ generator.pc \in {"idle", "returned"}
    /\ \E resolved \in {ResolveCityName(city_name)} :
           generator' =
               IF resolved \in DOMAIN city_centers
               THEN [pc |-> "loop", asked |-> city_name, city_name |-> resolved,
                     num_points |-> num_points, radius |-> radius,
                     city_center |-> city_centers[resolved], draws |-> <<>>]
               ELSE [pc |-> "KeyError", asked |-> city_name, city_name |-> resolved,
                     num_points |-> num_points, radius |-> radius,
                     city_center |-> <<0, 0>>, draws |-> <<>>]
    /\ coordinates' = <<>>
    /\ UNCHANGED <<detectorVars, pageVars, sessionVars, detection>>

\* One iteration of for _ in range(num_points), with its two draws.
LoopIteration(u1, u2) ==
    /\ generator.pc = "loop"
    /\ Len(coordinates) < generator.num_points
    /\ coordinates' = Append(coordinates,
                             Point(generator.city_center, generator.radius, u1, u2))
    /\ generator' = [generator EXCEPT !.draws = Append(@, <<u1, u2>>)]
    /\ UNCHANGED <<detectorVars, pageVars, sessionVars, detection>>

\* (mutant) the loop runs one time too few.
ReturnOneShort ==
    /\ generator.pc = "loop"
    /\ Len(coordinates) >= generator.num_points - 1
    /\ generator' = [generator EXCEPT !.pc = "returned"]
    /\ UNCHANGED <<coordinates, detectorVars, pageVars, sessionVars, detection>>

\* range(num_points) is exhausted: return coordinates.
ReturnCoordinates ==
    /\ generator.pc = "loop"
    /\ Len(coordinates) >= generator.num_points
    /\ generator' = [generator EXCEPT !.pc = "returned"]
    /\ UNCHANGED <<coordinates, detectorVars, pageVars, sessionVars, detection>>

GeneratorNext ==
    \/ \E city_name \in CityNames, num_points \in NumPointsValues, radius \in RadiusValues :
          generate_coordinates_around_city(city_name, num_points, radius)
    \/ \E u1 \in U1Values, u2 \in U2Values : LoopIteration(u1, u2)
    \/ ReturnCoordinates

GeneratorSpec == Init /\ [][GeneratorNext]_vars

----------------------------------------------------------------------------
(* The Community Input page *)

\* The script's local timestamp (lines 86-91): the Custom date and time, or the
\* clock at the run.  No line reads it after it is set.
timestamp ==
    IF form.time_choice = "Custom" THEN form.report_datetime ELSE Strftime(clock)

\* What a script run shows of the session and of the detector's return value:
\* the heat map (app.py lines 139-147), the forecast (analysis.py line 231), and
\* the hotspot table, markers and recommendations (app.py line 239, analysis.py
\* line 125).
Render(name, ss, result) ==
    (IF name = "app" /\ ss["weather_data"] # None /\ ~ss["data_stale"]
     THEN {"heatmap"} ELSE {})
    \cup (IF name = "analysis" /\ ss["forecast_data"] # None
          THEN {"forecast"} ELSE {})
    \cup (IF result.kind = "DataFrame" /\ result.rows # <<>>
          THEN {"hotspots"} ELSE {})

\* (mutant) the pages call the detector whatever the number of reports.
ScriptRunUnguarded(name, ss, detect, messages) ==
    /\ page' = name
    /\ session_state' = ss
    /\ IF detect /\ "community_reports" \in DOMAIN session_state
       THEN Call(DefaultEps, DefaultMinSamples, DefaultTempThreshold)
       ELSE /\ community_reports' = InitStore(session_state, community_reports)
            /\ args' = NoArgs
            /\ high_temp_reports' = <<>>
            /\ hotspots' = NotCalled
    /\ rendered' = messages \cup Render(name, ss, hotspots')
    /\ UNCHANGED <<generatorVars, pageVars, detection>>

\* The rest of a script run: the page it is, the keys it leaves, the frame it
\* created if there was none, its hotspot display, which calls the detector
\* with its defaults when there are reports enough, and what it shows with the
\* messages of the event's handler.
ScriptRun(name, ss, detect, messages) ==
    /\ page' = name
    /\ session_state' = ss
    /\ IF detect /\ Len(community_reports) >= MinReportsForClustering
       THEN Call(DefaultEps, DefaultMinSamples, DefaultTempThreshold)
       ELSE /\ community_reports' = InitStore(session_state, community_reports)
            /\ args' = NoArgs
            /\ high_temp_reports' = <<>>
            /\ hotspots' = NotCalled
    /\ rendered' = messages \cup Render(name, ss, hotspots')
    /\ UNCHANGED <<generatorVars, pageVars, detection>>

\* The user opens the Community Input page.
OpenCommunityInput ==
    /\ page # "community_input"
    /\ ScriptRun("community_input", InitCommunityInputKeys(session_state), FALSE, {})

\* The user changes widgets of the Submit Report tab.
EditForm(filling) ==
    /\ page = "community_input"
    /\ form # filling
    /\ form' = filling
    /\ UNCHANGED <<detectorVars, generatorVars, clock, success, sessionVars, detection>>

\* Time passes.
Tick ==
    /\ clock < MaxClock
    /\ clock' = clock + 1
    /\ UNCHANGED <<detectorVars, generatorVars, form, success, sessionVars, detection>>

\* "Submit Temperature Report" (lines 98-116): the temperature is validated and
\* the report added, add_community_report reading the clock itself (line 122).
SubmitReport ==
    /\ page = "community_input"
    /\ Len(community_reports) < MaxSubmitted
    /\ IF form.temperature < -500 \/ form.temperature > 600
       THEN UNCHANGED vars
       ELSE \E raised \in BOOLEAN :
               add_community_report(form.latitude, form.longitude, form.temperature,
                                    form.description, form.reporter, Strftime(clock),
                                    raised)

PageNext ==
    \/ OpenCommunityInput
    \/ \E filling \in FormFillings : EditForm(filling)
    \/ Tick
    \/ SubmitReport

PageSpec == Init /\ [][PageNext]_vars

----------------------------------------------------------------------------
(* The session: the pages' script runs *)

\* A run of app.py from the keys as the event left them.
HomeRun(ss, messages) ==
    \E after \in {TemperatureMapTab(InitHomeKeys(ss), community_reports)} :
        ScriptRun("app", after, after["reports_loaded"], messages)

\* The user opens the Home page.
OpenHome ==
    /\ page # "app"
    /\ HomeRun(session_state, {})

\* The user selects a city in the Home page's sidebar.
HomeSelectCity(selected_city) ==
    /\ page = "app"
    /\ selected_city # session_state["selected_city"]
    /\ HomeRun(change_city(session_state, selected_city), {})

\* "Fetch Data" or "Refresh Weather Data"; a failed fetch shows "Failed to fetch
\* weather data" (line 39).
HomeFetchWeather(ok) ==
    /\ page = "app"
    /\ HomeRun(fetch_weather_data(session_state, ok),
               IF ok THEN {} ELSE {"fetch_failed"})

\* "Load Satellite": load_satellite_view.
HomeLoadSatellite ==
    /\ page = "app"
    /\ HomeRun(Set(session_state, "satellite_loaded", TRUE), {})

\* "Load Reports": load_community_reports.
HomeLoadReports ==
    /\ page = "app"
    /\ HomeRun(Set(session_state, "reports_loaded", TRUE), {})

\* A run of analysis.py from the keys as the sidebar left them.
AnalysisRun(ss, ok) ==
    ScriptRun("analysis", ForecastTab(ss, ok), TRUE, {})

\* The user opens the Heat Island Analysis page.
OpenAnalysis(ok) ==
    /\ page # "analysis"
    /\ AnalysisRun(InitAnalysisKeys(session_state), ok)

\* The user selects a city in the Analysis page's sidebar.
AnalysisSelectCity(selected_city, ok) ==
    /\ page = "analysis"
    /\ selected_city # session_state["selected_city"]
    /\ AnalysisRun(analysis_change_city(session_state, selected_city), ok)

\* "Refresh Forecast Data" (lines 59-65).
AnalysisRefreshForecast(ok, again) ==
    /\ page = "analysis"
    /\ AnalysisRun(Set(session_state, "forecast_data",
                       get_forecast_data(session_state["selected_city"], ok)), again)

\* The fillings of the form used in the session.
SessionFillings == {f \in FormFillings : f.time_choice = "Now"}

SessionNext ==
    \/ OpenHome
    \/ \E c \in SessionCities : HomeSelectCity(c)
    \/ \E ok \in Outcomes : HomeFetchWeather(ok)
    \/ HomeLoadSatellite
    \/ HomeLoadReports
    \/ \E ok \in Outcomes : OpenAnalysis(ok)
    \/ \E c \in SessionCities, ok \in Outcomes : AnalysisSelectCity(c, ok)
    \/ \E ok \in Outcomes, again \in Outcomes : AnalysisRefreshForecast(ok, again)
    \/ OpenCommunityInput
    \/ \E filling \in SessionFillings : EditForm(filling)
    \/ SubmitReport

SessionSpec == Init /\ [][SessionNext]_vars

----------------------------------------------------------------------------
(* Heat maps of longer stores: the session after the Community Input page was
   used for n submissions, the form left as it was or filled with the 36-degree
   report in turn. *)

SubmittedReport(i) ==
    LET filling == IF i % 2 = 1 THEN InitialForm
                   ELSE CHOOSE f \in SessionFillings : f # InitialForm
    IN  [latitude |-> filling.latitude, longitude |-> filling.longitude,
         temperature |-> filling.temperature, timestamp |-> Strftime(0),
         description |-> filling.description, reporter |-> filling.reporter]

HeatmapInit ==
    /\ \E n \in 0..MaxHeatmapReports :
           community_reports = [i \in 1..n |-> SubmittedReport(i)]
    /\ args = NoArgs
    /\ high_temp_reports = <<>>
    /\ hotspots = NotCalled
    /\ coordinates = <<>>
    /\ generator = IdleGenerator
    /\ form = InitialForm
    /\ clock = 0
    /\ session_state = InitCommunityInputKeys(EmptySession)
    /\ page = "community_input"
    /\ success = (community_reports # <<>>)
    /\ rendered = {}
    /\ detection = NoDetection

HeatmapNext ==
    \/ OpenHome
    \/ \E c \in SessionCities : HomeSelectCity(c)
    \/ \E ok \in Outcomes : HomeFetchWeather(ok)
    \/ HomeLoadReports
    \/ OpenCommunityInput

HeatmapSpec == HeatmapInit /\ [][HeatmapNext]_vars

----------------------------------------------------------------------------
(* A detector call in progress while the one writer appends.  A frame is a
   value: pd.concat builds a new frame and line 129 binds the session's key to
   it, the frame bound to the call's parameter is not written by anyone. *)

\* The reports the writer appends meanwhile: the three hot ones of the example.
WriterSubmissions == {r \in Submissions : r[1] > 40000 /\ r[3] \in {340, 350, 360}}

\* The page calls identify_hotspots(st.session_state.community_reports): the
\* parameter is bound to the frame the key holds now.
InvokeDetection ==
    /\ detection.pc # "running"
    /\ Len(community_reports) >= MinReportsForClustering
    /\ detection' = [pc |-> "running", df |-> community_reports, returns |-> NotCalled]
    /\ UNCHANGED <<detectorVars, generatorVars, pageVars, sessionVars>>

\* (mutant) the call reads the session's key again when it filters.
CompleteDetectionOnStore ==
    /\ detection.pc = "running"
    /\ detection' =
          [detection EXCEPT
              !.pc = "done",
              !.returns = identify_hotspots(community_reports, DefaultEps,
                              DefaultMinSamples, DefaultTempThreshold).returns]
    /\ UNCHANGED <<detectorVars, generatorVars, pageVars, sessionVars>>

\* Lines 24-64 run on the parameter and the call returns.
CompleteDetection ==
    /\ detection.pc = "running"
    /\ detection' =
          [detection EXCEPT
              !.pc = "done",
              !.returns = identify_hotspots(detection.df, DefaultEps,
                              DefaultMinSamples, DefaultTempThreshold).returns]
    /\ UNCHANGED <<detectorVars, generatorVars, pageVars, sessionVars>>

ConcurrentNext ==
    \/ \E r \in WriterSubmissions, d \in Descriptions, who \in Reporters,
          now \in Timestamps :
          add_community_report(r[1], r[2], r[3], d, who, now, FALSE)
    \/ InvokeDetection
    \/ CompleteDetection

ConcurrentSpec == Init /\ [][ConcurrentNext]_vars

----------------------------------------------------------------------------
(* Vocabulary of the properties, stated on the caller's data *)

\* The store positions (from 1) of the reports at or above the call's threshold.
Eligible == {i \in 1..Len(community_reports) :
                community_reports[i].temperature >= args.temp_threshold}

\* (latitude, longitude, temperature) of the stored reports, as a set.
StoredTriples ==
    {<<community_reports[i].latitude, community_reports[i].longitude,
       community_reports[i].temperature>> : i \in 1..Len(community_reports)}

EmptySequence == [kind |-> "DataFrame", rows |-> <<>>]

SeverityRank(sev) ==
    CASE sev = "Moderate" -> 1 [] sev = "High" -> 2 [] sev = "Extreme" -> 3

----------------------------------------------------------------------------
(* C1..C5 *)

\* C1: given an empty report set, the detector returns an empty sequence of
\* hotspots, for every choice of eps, min_samples and temp_threshold.
C1_EmptyStoreGivesEmptySequence ==
    (args.called /\ community_reports = <<>>) => hotspots = EmptySequence

\* C2: for every report set in which fewer than min_samples reports have
\* temperature >= temp_threshold, the detector returns an empty sequence.
C2_TooFewEligibleGivesEmptySequence ==
    (args.called /\ Cardinality(Eligible) < args.min_samples)
        => hotspots = EmptySequence

\* The reports of the end-to-end example, in any order, under the default parameters.
ExampleReports ==
    { <<40700, -74000, 360>>, <<40701, -74001, 340>>, <<40702, -74002, 350>>,
      <<34050, -118240, 220>> }

ExampleCall ==
    /\ args = [called |-> TRUE, eps |-> 10, min_samples |-> 3, temp_threshold |-> 300]
    /\ Len(community_reports) = 4
    /\ StoredTriples = ExampleReports

\* C3: for the four example reports with eps=0.01, min_samples=3,
\* temp_threshold=30 the detector returns exactly one hotspot, whose centroid is
\* the mean of the three New York points, whose temperature is 35.0 and whose
\* severity is Extreme; the 22-degree report is in no cluster.
C3_EndToEndExample ==
    ExampleCall =>
        /\ hotspots.kind = "DataFrame"
        /\ Len(hotspots.rows) = 1
        /\ 3 * hotspots.rows[1].latitude.num
              = (40700 + 40701 + 40702) * hotspots.rows[1].latitude.den
        /\ 3 * hotspots.rows[1].longitude.num
              = (-74000 - 74001 - 74002) * hotspots.rows[1].longitude.den
        /\ hotspots.rows[1].temperature = 350
        /\ hotspots.rows[1].severity = "Extreme"
        /\ \A i \in 1..Len(high_temp_reports) :
              /\ high_temp_reports[i].temperature # 220
              /\ high_temp_reports[i].cluster = 0

C3_Witness ==
    /\ ExampleCall
    /\ hotspots.rows # <<>>

\* C4: for every returned hotspot, Extreme implies temperature >= 35.0, High
\* implies 32.0 <= temperature < 35.0, and Moderate implies
\* temp_threshold <= temperature < 32.0, on the returned (rounded) temperature.
C4_SeverityBoundsOnReturnedTemperature ==
    \A k \in 1..Len(hotspots.rows) :
        LET h == hotspots.rows[k]
        IN  /\ h.severity = "Extreme" => h.temperature >= 350
            /\ h.severity = "High" => (320 <= h.temperature /\ h.temperature < 350)
            /\ h.severity = "Moderate" =>
                  (args.temp_threshold <= h.temperature /\ h.temperature < 320)

\* C5: severity is a deterministic, monotone function of the returned
\* temperature: equal returned temperatures give equal severities, and a higher
\* or equal returned temperature never has a lower severity.
C5_SeverityMonotoneInReturnedTemperature ==
    \A k1, k2 \in 1..Len(hotspots.rows) :
        LET h1 == hotspots.rows[k1]
            h2 == hotspots.rows[k2]
        IN  /\ h1.temperature = h2.temperature => h1.severity = h2.severity
            /\ h1.temperature >= h2.temperature
                  => SeverityRank(h1.severity) >= SeverityRank(h2.severity)

----------------------------------------------------------------------------
(* DBSCAN semantics, stated on the caller's data *)

\* Planar distance of stored reports i and j at most eps.
Near(i, j) ==
    LET dlat == community_reports[i].latitude - community_reports[j].latitude
        dlon == community_reports[i].longitude - community_reports[j].longitude
    IN  dlat * dlat + dlon * dlon <= args.eps * args.eps

\* A core report: eligible, with at least min_samples eligible reports within eps.
IsCore(i) ==
    /\ i \in Eligible
    /\ Cardinality({j \in Eligible : Near(i, j)}) >= args.min_samples

Cores == {i \in 1..Len(community_reports) : IsCore(i)}

\* The reports of cores joined to a report of S by a chain of reports of cores in
\* which consecutive reports are within eps of each other.
RECURSIVE ChainFrom(_, _)
ChainFrom(cores, S) ==
    LET more == {j \in cores \ S : \E i \in S : Near(i, j)}
    IN  IF more = {} THEN S ELSE ChainFrom(cores, S \cup more)

\* The cluster label the call gave the stored report i (noise when it has none).
ClusterOf(i) ==
    IF \E n \in 1..Len(high_temp_reports) : high_temp_reports[n].index = i - 1
    THEN LET n == CHOOSE n \in 1..Len(high_temp_reports) :
                      high_temp_reports[n].index = i - 1
         IN  high_temp_reports[n].cluster
    ELSE NoiseLabel

\* The stored reports the call assigned to cluster label c.
Members(c) == {i \in 1..Len(community_reports) : ClusterOf(i) = c}

RECURSIVE SumOfSet(_, _)
SumOfSet(S, col) ==
    IF S = {} THEN 0
    ELSE LET i == CHOOSE i \in S : TRUE
         IN  community_reports[i][col] + SumOfSet(S \ {i}, col)

\* The rational q is the arithmetic mean of column col over the stored reports S.
IsMeanOf(q, S, col) ==
    /\ S # {}
    /\ q.den > 0
    /\ q.num * Cardinality(S) = SumOfSet(S, col) * q.den

\* Two returned values hold the same multiset of hotspots.
Count(rows, h) == Cardinality({k \in 1..Len(rows) : rows[k] = h})
SameHotspots(a, b) ==
    /\ a.kind = b.kind
    /\ Len(a.rows) = Len(b.rows)
    /\ \A k \in 1..Len(a.rows) : Count(a.rows, a.rows[k]) = Count(b.rows, a.rows[k])

----------------------------------------------------------------------------
(* C6..C10 *)

\* C6: each returned hotspot's latitude and longitude are the arithmetic means
\* of the latitudes and longitudes of exactly the reports assigned to that
\* hotspot's cluster: no noise report, no below-threshold report and no report
\* of another cluster enters the mean.  (Hotspot k is the group of label k - 1.)
C6_CentroidIsMeanOfClusterMembers ==
    \A k \in 1..Len(hotspots.rows) :
        /\ Members(k - 1) \subseteq Eligible
        /\ IsMeanOf(hotspots.rows[k].latitude, Members(k - 1), "latitude")
        /\ IsMeanOf(hotspots.rows[k].longitude, Members(k - 1), "longitude")

\* A call that returned a hotspot of several reports while a noise report and a
\* below-threshold report were in the store.
C6_Witness ==
    /\ Len(hotspots.rows) >= 1
    /\ Cardinality(Members(0)) >= 2
    /\ \E i \in Eligible : ClusterOf(i) = NoiseLabel
    /\ \E i \in 1..Len(community_reports) : i \notin Eligible

C8_CoresClusterByChains ==
    args.called =>
        LET cores == Cores
        IN  \A i \in cores :
                LET chain == ChainFrom(cores, {i})
                IN  \A j \in cores :
                        (ClusterOf(i) # NoiseLabel /\ ClusterOf(i) = ClusterOf(j))
                            <=> j \in chain

\* Core reports joined only through a third one share a cluster while another
\* core report is in a different cluster.
C8_Witness ==
    /\ args.called
    /\ \E i, j \in 1..Len(community_reports) :
          /\ IsCore(i) /\ IsCore(j)
          /\ ~Near(i, j)
          /\ ClusterOf(i) = ClusterOf(j)
    /\ \E i, j \in 1..Len(community_reports) :
          /\ IsCore(i) /\ IsCore(j)
          /\ ClusterOf(i) # ClusterOf(j)

\* C9: a filtered report contributes to some hotspot if and only if it is a
\* core report or lies within eps of a core report; every other report is noise
\* and contributes to no hotspot, and there is one hotspot per cluster.
C9_ContributesIffCoreOrBorder ==
    args.called =>
        /\ LET cores == Cores
           IN  \A i \in 1..Len(community_reports) :
                   (ClusterOf(i) # NoiseLabel)
                       <=> (i \in Eligible /\ \E j \in cores : Near(i, j))
        /\ \A i \in 1..Len(community_reports) :
              ClusterOf(i) # NoiseLabel =>
                  (0 <= ClusterOf(i) /\ ClusterOf(i) < Len(hotspots.rows))
        /\ \A k \in 1..Len(hotspots.rows) : Members(k - 1) # {}

\* A call with a border report in a cluster and a filtered report left as noise.
C9_Witness ==
    /\ args.called
    /\ \E i \in Eligible : ~IsCore(i) /\ ClusterOf(i) # NoiseLabel
    /\ \E i \in Eligible : ClusterOf(i) = NoiseLabel

\* Clustering ran and labelled every filtered report noise.
OnlyNoise ==
    /\ args.called
    /\ Len(high_temp_reports) >= args.min_samples
    /\ \A n \in 1..Len(high_temp_reports) : high_temp_reports[n].cluster = NoiseLabel

\* The call returned at line 27: the store is not empty and too few reports pass
\* the temperature filter.
TooFewFiltered ==
    /\ args.called
    /\ community_reports # <<>>
    /\ Cardinality(Eligible) < args.min_samples

\* C10: when at least min_samples reports pass the temperature filter but
\* clustering labels every one of them noise, the detector returns an empty
\* sequence, the representation it also returns at line 27 for too few filtered
\* reports.
C10_OnlyNoiseGivesEmptySequence ==
    /\ OnlyNoise => hotspots = EmptySequence
    /\ TooFewFiltered => hotspots = EmptySequence

C10_Witness ==
    /\ OnlyNoise
    /\ Cardinality(Eligible) = Len(high_temp_reports)
    /\ Cardinality(Eligible) >= 3

----------------------------------------------------------------------------
(* C11..C14 *)

\* The stored reports at or above the call's threshold, in store order.
KeptReports ==
    SelectSeq(community_reports, LAMBDA r : r.temperature >= args.temp_threshold)

\* C11: only reports with temperature >= temp_threshold are eligible: a report
\* at the threshold exactly is retained, and the reports strictly below it change
\* neither the cluster labels (membership, core counts) nor the returned
\* centroids and temperatures: the call gives what it gives on the store without them.
C11_OnlyReportsAtOrAboveThresholdCount ==
    args.called =>
        /\ \A n \in 1..Len(high_temp_reports) :
              high_temp_reports[n].temperature >= args.temp_threshold
        /\ Cardinality(Eligible) >= args.min_samples =>
              \A i \in Eligible :
                  \E n \in 1..Len(high_temp_reports) : high_temp_reports[n].index = i - 1
        /\ \E alone \in {identify_hotspots(KeptReports, args.eps, args.min_samples,
                                           args.temp_threshold)} :
              /\ alone.returns.rows = hotspots.rows
              /\ Len(alone.high_temp_reports) = Len(high_temp_reports)
              /\ \A n \in 1..Len(high_temp_reports) :
                    alone.high_temp_reports[n].cluster = high_temp_reports[n].cluster

\* A filtered report is left as noise although a below-threshold report lies at
\* its very place, while other reports form a hotspot.
C11_Witness ==
    /\ args.called
    /\ hotspots.rows # <<>>
    /\ \E i \in Eligible, j \in 1..Len(community_reports) :
          /\ j \notin Eligible
          /\ Near(i, j)
          /\ ClusterOf(i) = NoiseLabel
          /\ Cardinality({m \in 1..Len(community_reports) : Near(i, m)})
                >= args.min_samples

\* C12: each returned hotspot's temperature is the arithmetic mean of the
\* temperatures of the reports in its cluster, rounded to one decimal place (it
\* is a number of tenths at most half a tenth from the mean).
C12_TemperatureIsRoundedMean ==
    \A k \in 1..Len(hotspots.rows) :
        LET n == Cardinality(Members(k - 1))
            total == SumOfSet(Members(k - 1), "temperature")
            t == hotspots.rows[k].temperature
        IN  /\ n > 0
            /\ 2 * (t * n - total) <= n
            /\ 2 * (total - t * n) <= n

\* A returned hotspot whose mean temperature is not a whole number of tenths.
C12_Witness ==
    \E k \in 1..Len(hotspots.rows) :
        SumOfSet(Members(k - 1), "temperature") % Cardinality(Members(k - 1)) # 0

\* The severity of a mean temperature total/n (in tenths) under the fixed cut-offs.
SeverityOfMean(total, n) ==
    IF total >= 350 * n THEN "Extreme"
    ELSE IF total >= 320 * n THEN "High"
    ELSE "Moderate"

\* C13: severity is classified from the cluster's mean temperature with the
\* fixed cut-offs (>= 35.0 Extreme, >= 32.0 and < 35.0 High, otherwise
\* Moderate), whatever temp_threshold, eps and min_samples are.
C13_SeverityFromMeanTemperature ==
    \A k \in 1..Len(hotspots.rows) :
        hotspots.rows[k].severity =
            SeverityOfMean(SumOfSet(Members(k - 1), "temperature"),
                           Cardinality(Members(k - 1)))

\* A hotspot whose mean is below 35.0 and is returned as 35.0: it is High.
C13_Witness ==
    \E k \in 1..Len(hotspots.rows) :
        /\ hotspots.rows[k].severity = "High"
        /\ hotspots.rows[k].temperature = 350

\* C14: a detection call has no side effects: the caller's report collection has
\* the same rows, the same columns and the same order after the call as before
\* it, on every return path.
C14_CallLeavesReportsUntouched ==
    [][args'.called => community_reports' = community_reports]_vars

\* A call that went through clustering, built its labelled frame and returned
\* hotspots.
C14_Witness ==
    /\ args.called
    /\ hotspots.rows # <<>>
    /\ \E n \in 1..Len(high_temp_reports) : high_temp_reports[n].cluster = NoiseLabel

----------------------------------------------------------------------------
(* C15..C17 *)

\* C15: the generator returns exactly num_points (lat, lon) pairs, in generation
\* order (the k-th pair is the one made from the k-th pair of draws), for every
\* city name and radius.
C15_ReturnsNumPointsPairsInOrder ==
    generator.pc = "returned" =>
        /\ Len(coordinates) = generator.num_points
        /\ Len(generator.draws) = generator.num_points
        /\ \A k \in 1..Len(coordinates) :
              /\ Len(coordinates[k]) = 2
              /\ coordinates[k] = Point(generator.city_center, generator.radius,
                                        generator.draws[k][1], generator.draws[k][2])

\* A call for an unknown city returned several different points.
C15_Witness ==
    /\ generator.pc = "returned"
    /\ generator.asked \notin DOMAIN city_centers
    /\ generator.num_points >= 2
    /\ coordinates[1] # coordinates[2]

\* C16: every point lies within radius (planar distance in degrees) of the
\* resolved centre, for every pair of draws in [0, 1): its latitude offset is
\* r*sin(theta) and its longitude offset r*cos(theta) with r = radius*sqrt(U1).
\* U1 is in sixteenths and sin, cos are in fifths, whence the factors 16 and 5.
C16_PointsWithinRadiusAtPolarOffsets ==
    \A k \in 1..Len(coordinates) :
        LET dlat == coordinates[k][1] - generator.city_center[1]
            dlon == coordinates[k][2] - generator.city_center[2]
            u1 == generator.draws[k][1]
            u2 == generator.draws[k][2]
        IN  /\ dlat * dlat + dlon * dlon <= generator.radius * generator.radius
            /\ \E r \in 0..generator.radius :
                  /\ 16 * r * r = generator.radius * generator.radius * u1
                  /\ 5 * dlat = r * u2[2]
                  /\ 5 * dlon = r * u2[1]

\* A point off both axes, nearer than the radius and not at the centre.
C16_Witness ==
    \E k \in 1..Len(coordinates) :
        /\ coordinates[k][1] # generator.city_center[1]
        /\ coordinates[k][2] # generator.city_center[2]
        /\ generator.draws[k][2][1] # generator.draws[k][2][2]

\* C17: an unknown city name raises no error and uses New York's centre; a known
\* name uses its own centre.
C17_UnknownCityFallsBackToNewYork ==
    generator.pc # "idle" =>
        /\ generator.pc # "KeyError"
        /\ generator.city_center =
              IF generator.asked \in DOMAIN city_centers
              THEN city_centers[generator.asked]
              ELSE <<407128, -740060>>

\* A call for a city the table does not have has returned its points.
C17_Witness ==
    /\ generator.pc = "returned"
    /\ generator.asked = "Bengaluru"
    /\ generator.num_points > 0

----------------------------------------------------------------------------
(* C18, C20 *)

\* The last row of the store after the step.
NewestReport == community_reports'[Len(community_reports')]

\* C18: a submission adds exactly one entry, at the end: the length grows by one,
\* the earlier entries keep their values and order, and the new entry carries the
\* given latitude, longitude, temperature and description, with the reporter
\* given ("Anonymous" when none is entered); an entry equal to a stored one in
\* coordinates or timestamp is added all the same.
C18_AppendAddsOneEntryAtTheEnd ==
    /\ [](page = "community_input" /\ Len(community_reports) < MaxSubmitted =>
            ENABLED (SubmitReport /\ Len(community_reports') = Len(community_reports) + 1))
    /\ [][SubmitReport /\ success' =>
            /\ Len(community_reports') = Len(community_reports) + 1
            /\ SubSeq(community_reports', 1, Len(community_reports)) = community_reports
            /\ NewestReport.latitude = form.latitude
            /\ NewestReport.longitude = form.longitude
            /\ NewestReport.temperature = form.temperature
            /\ NewestReport.description = form.description
            /\ NewestReport.reporter = form.reporter
            /\ form = InitialForm => NewestReport.reporter = "Anonymous"
            /\ DOMAIN NewestReport = {"latitude", "longitude", "temperature",
                                      "timestamp", "description", "reporter"}]_vars

\* Two stored entries equal in every field, timestamp included, after an entry
\* of another reporter.
C18_Witness ==
    /\ Len(community_reports) = 3
    /\ community_reports[1].reporter = "Asha"
    /\ community_reports[2].reporter = "Anonymous"
    /\ community_reports[2] = community_reports[3]

\* C20: a stored report's timestamp is the clock at submission when no time is
\* given, and the given date and time for a report submitted from the Community
\* Input page with a Custom date and time.
C20_CustomTimeIsStored ==
    [][SubmitReport /\ success' =>
          NewestReport.timestamp =
              IF form.time_choice = "Custom" THEN form.report_datetime
              ELSE Strftime(clock)]_vars

----------------------------------------------------------------------------
(* C19 *)

\* C19: the report store is append-only over any sequence of operations of the
\* application (submission, detection, heat map creation, city change, weather
\* or forecast fetch, page navigation): the store before a step is a prefix of
\* the store after it.
C19_StoreIsAppendOnly ==
    [][/\ Len(community_reports) <= Len(community_reports')
       /\ SubSeq(community_reports', 1, Len(community_reports)) = community_reports]_vars

\* With reports stored, every page has been run: a heat map was created, the
\* city changed, a forecast fetched and the detector called.
C19_Witness ==
    /\ Len(community_reports) = MaxSubmitted
    /\ community_reports[1] # community_reports[2]
    /\ {"heatmap", "forecast_data", "selected_location"} \subseteq DOMAIN session_state
    /\ session_state["heatmap"].reports > 0
    /\ session_state["selected_city"] = "Mumbai"
    /\ session_state["forecast_data"] # None
    /\ args.called

----------------------------------------------------------------------------
(* C21 *)

----------------------------------------------------------------------------
(* C22 *)

\* C22: create_heatmap calls the synthetic coordinate generator exactly when the
\* store holds fewer than 10 reports, and then adds exactly 20 synthetic points
\* to the heat data; with 10 or more reports the heat data is exactly the stored
\* reports and holds no synthetic point.
C22_SyntheticPointsOnlyBelowTenReports ==
    "heatmap" \in DOMAIN session_state =>
        LET heatmap == session_state["heatmap"]
        IN  /\ heatmap.generator_called <=> Len(community_reports) < 10
            /\ heatmap.simulated = IF Len(community_reports) < 10 THEN 20 ELSE 0
            /\ Len(heatmap.heat_data) = Len(community_reports)
            /\ \A i \in 1..Len(community_reports) :
                  heatmap.heat_data[i] = <<community_reports[i].latitude,
                                           community_reports[i].longitude,
                                           community_reports[i].temperature>>

\* The heat map of a store of exactly ten reports is on the screen.
C22_Witness ==
    /\ Len(community_reports) = 10
    /\ "heatmap" \in rendered
    /\ "heatmap" \in DOMAIN session_state
    /\ session_state["heatmap"].simulated = 0

----------------------------------------------------------------------------
(* C23 *)

\* The store as it was when the call in progress was invoked: the store is
\* append-only, so it is the prefix of the length the call's frame has.
StoreAtInvocation == SubSeq(community_reports, 1, Len(detection.df))

\* C23: with one writer appending while a detection call is in progress, the
\* call observes the reports that existed when it was invoked: its result is the
\* result of detection on the store as it was at invocation, whatever was
\* appended since, and the frame it works on holds whole reports only.
C23_DetectionSeesStoreAtInvocation ==
    /\ detection.pc # "idle" =>
          /\ Len(detection.df) <= Len(community_reports)
          /\ detection.df = StoreAtInvocation
          /\ \A i \in 1..Len(detection.df) :
                DOMAIN detection.df[i] = {"latitude", "longitude", "temperature",
                                          "timestamp", "description", "reporter"}
    /\ detection.pc = "done" =>
          detection.returns =
              identify_hotspots(StoreAtInvocation, DefaultEps, DefaultMinSamples,
                                DefaultTempThreshold).returns

\* A call returned after an append that would have changed its result.
C23_Witness ==
    /\ detection.pc = "done"
    /\ detection.returns.rows # <<>>
    /\ Len(community_reports) > Len(detection.df)
    /\ detection.returns #
          identify_hotspots(community_reports, DefaultEps, DefaultMinSamples,
                            DefaultTempThreshold).returns

----------------------------------------------------------------------------
(* identify_hotspots on frames laid out on a line, two meshes of eps apart:
   two groups of three reports, a report between them at eps exactly from the
   inner report of each, and a report below 30 degrees at the same place. *)

ClusterMinSamplesValues == 1..(DefaultMinSamples + 1)

BridgeRow(offset, temperature) ==
    [latitude |-> 40700 + offset, longitude |-> -74000, temperature |-> temperature,
     timestamp |-> Strftime(0), description |-> "", reporter |-> DefaultReporter]

BridgeReports ==
    << BridgeRow(2, 360), BridgeRow(4, 340), BridgeRow(4, 350),
       BridgeRow(0, 300), BridgeRow(0, 220),
       BridgeRow(-2, 330), BridgeRow(-4, 310), BridgeRow(-4, 320) >>

\* The rows of BridgeReports at the positions S, in their order.
RowsAt(S) ==
    [k \in 1..Cardinality(S) |->
        BridgeReports[CHOOSE i \in S : Cardinality({j \in S : j <= i}) = k]]

ClusterInit ==
    /\ \E S \in SUBSET (1..Len(BridgeReports)) : community_reports = RowsAt(S)
    /\ args = NoArgs
    /\ high_temp_reports = <<>>
    /\ hotspots = NotCalled
    /\ coordinates = <<>>
    /\ generator = IdleGenerator
    /\ form = InitialForm
    /\ clock = 0
    /\ session_state = EmptySession
    /\ page = "none"
    /\ success = (community_reports # <<>>)
    /\ rendered = {}
    /\ detection = NoDetection

ClusterNext ==
    \/ \E eps \in EpsValues, ms \in ClusterMinSamplesValues, thr \in TempThresholds :
          Detect(eps, ms, thr)
    \/ Rerun

ClusterSpec == ClusterInit /\ [][ClusterNext]_vars

----------------------------------------------------------------------------
(* C24 *)

\* The cluster labels the call gave to filtered reports, noise apart.
ClusterLabels == {ClusterOf(i) : i \in Eligible} \ {NoiseLabel}

RECURSIVE SumOfSizes(_)
SumOfSizes(labels) ==
    IF labels = {} THEN 0
    ELSE LET c == CHOOSE c \in labels : TRUE
         IN  Cardinality(Members(c)) + SumOfSizes(labels \ {c})

\* A filtered report that is no core and is within eps of cores of two clusters.
SharedBorder(i) ==
    /\ i \in Eligible
    /\ ~IsCore(i)
    /\ \E c, d \in Cores : /\ Near(i, c) /\ Near(i, d)
                           /\ ClusterOf(c) # ClusterOf(d)

\* C24: the clusters are disjoint: every filtered report has one row and one
\* label, a report within eps of cores of two clusters is counted in exactly one
\* of them, every returned hotspot is the aggregate of the reports of its own
\* label only, and the cluster sizes sum to at most the number of filtered reports.
C24_ClustersAreDisjoint ==
    (args.called /\ hotspots.kind = "DataFrame" /\ Cardinality(Eligible) >= args.min_samples) =>
        /\ \A n, m \in 1..Len(high_temp_reports) :
              high_temp_reports[n].index = high_temp_reports[m].index => n = m
        /\ \A i \in Eligible :
              (\E c \in Cores : Near(i, c)) =>
                  /\ ClusterOf(i) \in {ClusterOf(c) : c \in {c \in Cores : Near(i, c)}}
                  /\ Cardinality({c \in ClusterLabels : i \in Members(c)}) = 1
        /\ Len(hotspots.rows) = Cardinality(ClusterLabels)
        /\ \A k \in 1..Len(hotspots.rows) :
              /\ IsMeanOf(hotspots.rows[k].latitude, Members(k - 1), "latitude")
              /\ IsMeanOf(hotspots.rows[k].longitude, Members(k - 1), "longitude")
        /\ SumOfSizes(ClusterLabels) <= Cardinality(Eligible)

\* Two hotspots were returned and a report within eps of a core of each is
\* counted in one of them.
C24_Witness ==
    /\ args.called
    /\ hotspots.kind = "DataFrame"
    /\ Len(hotspots.rows) = 2
    /\ \E i \in Eligible : SharedBorder(i) /\ ClusterOf(i) # NoiseLabel

----------------------------------------------------------------------------
(* C25 *)

\* The square of the planar distance between the stored reports i and j.
Distance2(i, j) ==
    LET dlat == community_reports[i].latitude - community_reports[j].latitude
        dlon == community_reports[i].longitude - community_reports[j].longitude
    IN  dlat * dlat + dlon * dlon

\* C25: a report counts itself and eps is inclusive: a filtered report is core
\* when the filtered reports at planar distance <= eps of it, itself included,
\* number at least min_samples. Every core report is in a hotspot, hotspots are
\* returned exactly when there is a core report, and a filtered report that is
\* neither core nor within eps of a core is in none (so min_samples reports
\* mutually within eps form a hotspot and min_samples - 1 of them alone form none).
C25_CoreCountsItselfAndEpsIsInclusive ==
    args.called =>
        /\ hotspots.rows # <<>> <=> Cores # {}
        /\ \A i \in Cores : ClusterOf(i) # NoiseLabel
        /\ \A i \in Eligible \ Cores :
              (\A c \in Cores : ~Near(i, c)) => ClusterOf(i) = NoiseLabel
        /\ \A i \in 1..Len(community_reports) \ Eligible : ClusterOf(i) = NoiseLabel

\* Exactly min_samples reports pass the filter, they are mutually within eps,
\* two of them at distance eps exactly, and they form the one hotspot returned.
C25_Witness ==
    /\ args.called
    /\ args.min_samples = DefaultMinSamples
    /\ Cardinality(Eligible) = args.min_samples
    /\ \A i, j \in Eligible : Near(i, j)
    /\ \E i, j \in Eligible : Distance2(i, j) = args.eps * args.eps
    /\ Len(hotspots.rows) = 1
    /\ \A i \in Eligible : ClusterOf(i) = 0

----------------------------------------------------------------------------
(* C26 *)

\* C26 as stated: every returned hotspot aggregates at least min_samples
\* reports, for every min_samples >= 1, so the number of hotspots is at most the
\* number of filtered reports divided by min_samples.
C26_EveryHotspotHasMinSamplesReports ==
    args.called =>
        /\ \A k \in 1..Len(hotspots.rows) :
              Cardinality(Members(k - 1)) >= args.min_samples
        /\ Len(hotspots.rows) * args.min_samples <= Cardinality(Eligible)

\* C26 (amended): every returned hotspot holds a core report, that is a filtered
\* report with at least min_samples filtered reports within eps, itself included.
\* For min_samples <= 3 (the default included) every hotspot aggregates at least
\* min_samples reports and the hotspots number at most filtered reports /
\* min_samples; a hotspot aggregates fewer than min_samples reports only when a
\* report within eps of one of its cores was assigned to another cluster.
C26_EveryHotspotHoldsACoreReport ==
    args.called =>
        /\ \A k \in 1..Len(hotspots.rows) :
              /\ \E c \in Members(k - 1) : IsCore(c)
              /\ Cardinality(Members(k - 1)) < args.min_samples =>
                    \E c \in Members(k - 1) \cap Cores, j \in Eligible :
                        /\ Near(c, j)
                        /\ ClusterOf(j) \notin {k - 1, NoiseLabel}
        /\ Len(hotspots.rows) <= Cardinality(Cores)
        /\ args.min_samples <= DefaultMinSamples =>
              /\ \A k \in 1..Len(hotspots.rows) :
                    Cardinality(Members(k - 1)) >= args.min_samples
              /\ Len(hotspots.rows) * args.min_samples <= Cardinality(Eligible)

\* A returned hotspot aggregates fewer than min_samples reports.
C26_Witness ==
    /\ args.called
    /\ \E k \in 1..Len(hotspots.rows) :
          /\ Members(k - 1) # {}
          /\ Cardinality(Members(k - 1)) < args.min_samples

----------------------------------------------------------------------------
(* C27..C30 *)

\* C27: whenever the Home page displays the temperature map, the weather data
\* held was fetched for the city currently selected (so after a change of the
\* selected city, on either page, the map is not displayed until a fetch for the
\* new city succeeded).
C27_MapShowsWeatherOfSelectedCity ==
    "heatmap" \in rendered =>
        /\ session_state["weather_data"] # None
        /\ session_state["weather_data"].name = session_state["selected_city"]

\* C28: whenever the Analysis page's forecast tab displays forecast data, it was
\* fetched for the city currently selected: every change of the selected city,
\* on Home or on Analysis, clears the forecast held.
C28_ForecastShownIsOfSelectedCity ==
    "forecast" \in rendered =>
        /\ session_state["forecast_data"] # None
        /\ session_state["forecast_data"].name = session_state["selected_city"]

\* The value the session holds under a key, None when the key is absent.
Held(ss, key) == IF key \in DOMAIN ss THEN ss[key] ELSE None

\* C29: a failed weather fetch leaves the session state as it was: weather_data,
\* data_stale, refresh_needed and the cached heat map keep their values, and each
\* of these keys is present after the fetch exactly if it was before.
C29_FailedFetchLeavesSessionState ==
    [][HomeFetchWeather(FALSE) =>
          \A key \in {"weather_data", "data_stale", "refresh_needed", "heatmap"} :
              /\ key \in DOMAIN session_state' <=> key \in DOMAIN session_state
              /\ Held(session_state', key) = Held(session_state, key)]_vars

\* A fetch failed while the session held a heat map and weather data made stale
\* by a change of city: both are still held, and the data still stale.
C29_Witness ==
    /\ "fetch_failed" \in rendered
    /\ session_state["weather_data"] # None
    /\ session_state["data_stale"]
    /\ "heatmap" \in DOMAIN session_state

\* C30: the pages call the detector only on a store of at least 3 reports (never
\* on an empty one), and show hotspot tables, markers and recommendations only
\* when the call returned a frame that is not empty.
C30_PagesDetectOnThreeReportsAndShowNonEmpty ==
    /\ args.called => Len(community_reports) >= 3
    /\ "hotspots" \in rendered =>
          /\ page \in {"app", "analysis"}
          /\ args.called
          /\ hotspots.kind = "DataFrame"
          /\ hotspots.rows # <<>>
    /\ (page \in {"app", "analysis"} /\ args.called /\ hotspots.rows = <<>>) =>
          "hotspots" \notin rendered

\* The Analysis page called the detector on three reports and shows its hotspot.
C30_Witness ==
    /\ page = "analysis"
    /\ args.called
    /\ Len(community_reports) = 3
    /\ "hotspots" \in rendered

====
